---- MODULE Spec2Model ----
(***************************************************************************)
(* Model of WMOGroup (src/src/lib/pipeline/wmo/group/index.js): the        *)
(* constructor with its portal slice and material load, dispose(), and the *)
(* closestPortal(point, max) query.                                        *)
(*                                                                         *)
(* Encodings.                                                              *)
(*  - A value that may be undefined/null in the JavaScript is a sequence   *)
(*    of length 0 (undefined, null) or 1 (the value).                      *)
(*  - JavaScript arrays are sequences; At reads them with a 0-based index  *)
(*    and yields undefined outside the array, as the language does.        *)
(*  - A plane normal is an integer vector together with its length         *)
(*    ("scale"), the unit normal being normal / scale.                     *)
(*  - A distance (a non-negative real, the result of a square root) is     *)
(*    carried by its square, as the rational num / den; a signed distance  *)
(*    x is carried as sgn(x) * x^2.  Both maps are strictly monotone, so   *)
(*    every comparison of the code is decided exactly.                     *)
(***************************************************************************)
EXTENDS Integers, Sequences, FiniteSets, TLC

VARIABLES rootPortals, rootPortalRefs, loadCalls, unloadCalls,
          geometryDisposeCalls, group, status, held, disposals, lastCall

vars == <<rootPortals, rootPortalRefs, loadCalls, unloadCalls,
          geometryDisposeCalls, group, status, held, disposals, lastCall>>

(* ------------------------------ bounds -------------------------------- *)

\* Largest length of root.portalRefs, and of a header's offset and count.
MaxPortalRefs == 2

\* Largest number of dispose() calls made on one object.
MaxDisposals == 2

(* --------------------------- option values ---------------------------- *)

Undefined == <<>>

Some(x) == <<x>>

IsDefined(o) == Len(o) = 1

Get(o) == o[1]

\* arr[i] of a JavaScript array: undefined outside 0 .. length - 1.
At(arr, i) == IF i >= 0 /\ i < Len(arr) THEN Some(arr[i + 1]) ELSE Undefined

(* ------------------------------ inputs -------------------------------- *)

Vec(x, y, z) == <<x, y, z>>

\* The portal of the specification's examples: plane z = 0.
PortalA ==
  [plane |-> [normal |-> Vec(0, 0, 1), scale |-> 1, constant |-> 0],
   boundingBox |-> [min |-> Vec(-1, -1, 0), max |-> Vec(1, 1, 0)]]

\* A parallel portal in the plane z = 4.
PortalB ==
  [plane |-> [normal |-> Vec(0, 0, 1), scale |-> 1, constant |-> -4],
   boundingBox |-> [min |-> Vec(-1, -1, 4), max |-> Vec(1, 1, 4)]]

\* A portal in the tilted plane 3x + 4y = 0 (unit normal (3, 4, 0) / 5),
\* the bounding box of its vertices (-4, 3, 0) and (4, -3, 2).
PortalC ==
  [plane |-> [normal |-> Vec(3, 4, 0), scale |-> 5, constant |-> 0],
   boundingBox |-> [min |-> Vec(-4, -3, 0), max |-> Vec(4, 3, 2)]]

RootPortalTables == {<<PortalA, PortalB, PortalC>>, <<PortalA>>}

\* Tables of portal references of at most MaxPortalRefs entries.  A reference
\* is an object: id carries its identity.  portalIndex ranges over the
\* indexes of the portal table and one index past its end.
RootPortalRefTables(nPortals) ==
  UNION {{[i \in 1..n |-> [id |-> i - 1, portalIndex |-> f[i]]] :
            f \in [1..n -> 0..nPortals]} : n \in 0..MaxPortalRefs}

Headers ==
  [portalOffset : 0..MaxPortalRefs, portalCount : -1..MaxPortalRefs]

MaterialRefLists == {<<>>, <<"tex1", "tex2", "tex1">>}

Defs == [header : Headers, materialRefs : MaterialRefLists]

Points == {Vec(0, 0, 5), Vec(0, 0, -3), Vec(5, 5, 2), Vec(0, 0, 2),
           Vec(0, 0, 0), Vec(-4, -3, 1)}

\* max: omitted (null) or a non-negative number.
Maxes == {Undefined, Some(0), Some(2)}

(* ------------------------- vector arithmetic -------------------------- *)

Dot(a, b) == a[1] * b[1] + a[2] * b[2] + a[3] * b[3]

Scale(a, k) == Vec(a[1] * k, a[2] * k, a[3] * k)

Sub(a, b) == Vec(a[1] - b[1], a[2] - b[2], a[3] - b[3])

\* Rationals num / den with den > 0.
RatLess(a, b) == a.num * b.den < b.num * a.den

RatEq(a, b) == a.num * b.den = b.num * a.den

\* scale * plane.distanceToPoint(point), the latter being
\* normal . point + constant for the unit normal.
PlaneDistanceScaled(plane, point) ==
  Dot(plane.normal, point) + plane.constant * plane.scale

\* scale^2 * plane.projectPoint(point), the latter being
\* point - normal * distanceToPoint(point) for the unit normal.
ProjectPointScaled(plane, point) ==
  Sub(Scale(point, plane.scale * plane.scale),
      Scale(plane.normal, PlaneDistanceScaled(plane, point)))

ClampComponent(x, lo, hi) == IF x < lo THEN lo ELSE IF x > hi THEN hi ELSE x

\* k * v.clamp(min, max) for the vector v given as k * v.
ClampScaled(v, min, max, k) ==
  Vec(ClampComponent(v[1], min[1] * k, max[1] * k),
      ClampComponent(v[2], min[2] * k, max[2] * k),
      ClampComponent(v[3], min[3] * k, max[3] * k))

\* The square of a.distanceTo(b) for a and b given as k * a and k * b.
DistanceToSq(a, b, k) ==
  [num |-> Dot(Sub(a, b), Sub(a, b)), den |-> k * k]

\* Variant of PortalDistance that omits the clamp to the bounding box.
PortalDistanceUnclamped(portal, point) ==
  LET k == portal.plane.scale * portal.plane.scale
  IN  DistanceToSq(ProjectPointScaled(portal.plane, point),
                   Scale(point, k), k)

\* The square of
\*   portal.plane.projectPoint(point).clamp(box.min, box.max).distanceTo(point)
PortalDistance(portal, point) ==
  LET k == portal.plane.scale * portal.plane.scale
  IN  DistanceToSq(ClampScaled(ProjectPointScaled(portal.plane, point),
                               portal.boundingBox.min,
                               portal.boundingBox.max, k),
                   Scale(point, k), k)

\* portal.plane.distanceToPoint(point) < 0.0 ? -1 : 1
PortalSign(portal, point) ==
  IF PlaneDistanceScaled(portal.plane, point) < 0 THEN -1 ELSE 1

\* distance * sign
SignedDistance(distance, sign) ==
  [num |-> distance.num * sign, den |-> distance.den]

\* The number max (non-negative) as a distance.
MaxDistance(m) == [num |-> m * m, den |-> 1]

(* ---------------------------- root container --------------------------- *)

\* root.loadMaterials(refs): one material handle per reference, in order;
\* the handle of a reference is the root's shared material for it.
loadMaterials(refs) == [i \in 1..Len(refs) |-> [material |-> refs[i]]]

(* ------------------------------ WMOGroup ------------------------------ *)

\* An instance none of whose fields has been assigned.
BareObject ==
  [header |-> Undefined, portals |-> Undefined, portalRefs |-> Undefined,
   material |-> Undefined, geometry |-> Undefined]

\* The loop of createPortals from pindex on.  root.portalRefs[pindex] outside
\* the table is undefined and reading its portalIndex raises a TypeError;
\* root.portals[ref.portalIndex] outside the table is undefined and is pushed.
RECURSIVE PortalLoop(_, _, _, _, _, _)
PortalLoop(portalTable, refTable, pindex, pend, portals, portalRefs) ==
  IF pindex >= pend
  THEN [threw |-> FALSE, portals |-> portals, portalRefs |-> portalRefs]
  ELSE LET ref == At(refTable, pindex)
       IN  IF ~IsDefined(ref)
           THEN [threw |-> TRUE, portals |-> portals,
                 portalRefs |-> portalRefs]
           ELSE PortalLoop(portalTable, refTable, pindex + 1, pend,
                           Append(portals,
                                  At(portalTable, Get(ref).portalIndex)),
                           Append(portalRefs, Get(ref)))

\* Variant of createPortals that ignores header.portalOffset.
createPortalsFromZero(portalTable, refTable, header) ==
  IF header.portalCount > 0
  THEN PortalLoop(portalTable, refTable, 0, header.portalCount, <<>>, <<>>)
  ELSE [threw |-> FALSE, portals |-> <<>>, portalRefs |-> <<>>]

createPortals(portalTable, refTable, header) ==
  IF header.portalCount > 0
  THEN PortalLoop(portalTable, refTable, header.portalOffset,
                  header.portalOffset + header.portalCount, <<>>, <<>>)
  ELSE [threw |-> FALSE, portals |-> <<>>, portalRefs |-> <<>>]

\* this.material = new THREE.MultiMaterial() with the handles of
\* root.loadMaterials(materialRefs); loads is the log of the calls of
\* root.loadMaterials.
createMaterial(this, loads, materialRefs) ==
  [this |-> [this EXCEPT !.material =
                           Some([materials |-> loadMaterials(materialRefs)])],
   loadCalls |-> Append(loads, materialRefs)]

createGeometry(this) == [this EXCEPT !.geometry = Some("BufferGeometry")]

\* Variant of constructor that calls createMaterial before createPortals.
constructorMaterialFirst(portalTable, refTable, loads, def) ==
  LET cm == createMaterial([BareObject EXCEPT !.header = Some(def.header)],
                           loads, def.materialRefs)
      cp == createPortals(portalTable, refTable, def.header)
      t1 == [cm.this EXCEPT !.portals = Some(cp.portals),
                            !.portalRefs = Some(cp.portalRefs)]
  IN  IF cp.threw
      THEN [threw |-> TRUE, this |-> t1, loadCalls |-> cm.loadCalls]
      ELSE [threw |-> FALSE, this |-> createGeometry(t1),
            loadCalls |-> cm.loadCalls]

\* new WMOGroup(root, def): the object as the constructor leaves it, whether
\* it raised, and the log of root.loadMaterials.
constructor(portalTable, refTable, loads, def) ==
  LET cp == createPortals(portalTable, refTable, def.header)
      t1 == [BareObject EXCEPT !.header = Some(def.header),
                               !.portals = Some(cp.portals),
                               !.portalRefs = Some(cp.portalRefs)]
      cm == createMaterial(t1, loads, def.materialRefs)
  IN  IF cp.threw
      THEN [threw |-> TRUE, this |-> t1, loadCalls |-> loads]
      ELSE [threw |-> FALSE, this |-> createGeometry(cm.this),
            loadCalls |-> cm.loadCalls]

\* Variant of dispose without the tests of this.geometry and this.material:
\* reading a property of undefined raises a TypeError.
disposeUnguarded(this, unloads, geometryCalls) ==
  IF ~IsDefined(this.geometry) \/ ~IsDefined(this.material)
  THEN [threw |-> TRUE, geometryDisposeCalls |-> geometryCalls,
        unloadCalls |-> unloads]
  ELSE [threw |-> FALSE, geometryDisposeCalls |-> geometryCalls + 1,
        unloadCalls |-> unloads \o Get(this.material).materials]

\* Variant of dispose that unloads the first material only.
disposeFirstOnly(this, unloads, geometryCalls) ==
  [threw |-> FALSE,
   geometryDisposeCalls |->
     IF IsDefined(this.geometry) THEN geometryCalls + 1 ELSE geometryCalls,
   unloadCalls |->
     IF IsDefined(this.material) /\ Len(Get(this.material).materials) > 0
     THEN Append(unloads, Get(this.material).materials[1])
     ELSE unloads]

\* dispose(): unloads is the log of the calls of root.unloadMaterial and
\* geometryCalls the number of calls of geometry.dispose.
dispose(this, unloads, geometryCalls) ==
  [threw |-> FALSE,
   geometryDisposeCalls |->
     IF IsDefined(this.geometry) THEN geometryCalls + 1 ELSE geometryCalls,
   unloadCalls |->
     IF IsDefined(this.material)
     THEN unloads \o Get(this.material).materials
     ELSE unloads]

\* Variant of InitialShortest that ignores max.
InitialShortestUnbounded(max) == Undefined

\* let shortestDistance = max
InitialShortest(max) ==
  IF IsDefined(max) THEN Some(MaxDistance(Get(max))) ELSE Undefined

\* Variant of IsCloser with <= in place of <.
IsCloserOrEqual(shortestDistance, distance) ==
  ~IsDefined(shortestDistance) \/ ~RatLess(Get(shortestDistance), distance)

\* shortestDistance === null || distance < shortestDistance
IsCloser(shortestDistance, distance) ==
  ~IsDefined(shortestDistance) \/ RatLess(distance, Get(shortestDistance))

\* The loop of closestPortal from index on.  An undefined entry of
\* this.portals raises a TypeError at portal.plane.
RECURSIVE ClosestLoop(_, _, _, _, _, _)
ClosestLoop(portals, portalRefs, point, index, shortestDistance, result) ==
  IF index >= Len(portals)
  THEN [threw |-> FALSE, value |-> result]
  ELSE LET portal == portals[index + 1]
           portalRef == portalRefs[index + 1]
       IN  IF ~IsDefined(portal)
           THEN [threw |-> TRUE, value |-> Undefined]
           ELSE LET distance == PortalDistance(Get(portal), point)
                    sign == PortalSign(Get(portal), point)
                IN  IF IsCloser(shortestDistance, distance)
                    THEN ClosestLoop(portals, portalRefs, point, index + 1,
                           Some(distance),
                           Some([portal |-> Get(portal),
                                 portalRef |-> portalRef,
                                 distance |->
                                   SignedDistance(distance, sign)]))
                    ELSE ClosestLoop(portals, portalRefs, point, index + 1,
                                     shortestDistance, result)

\* closestPortal(point, max = null): value is null (undefined here) or the
\* result record.
closestPortal(this, point, max) ==
  IF Len(Get(this.portals)) = 0
  THEN [threw |-> FALSE, value |-> Undefined]
  ELSE ClosestLoop(Get(this.portals), Get(this.portalRefs), point, 0,
                   InitialShortest(max), Undefined)

(* ------------------------------ behaviour ----------------------------- *)

Call(op, point, max, threw, value) ==
  [op |-> op, point |-> point, max |-> max, threw |-> threw, value |-> value]

Init ==
  /\ rootPortals \in RootPortalTables
  /\ rootPortalRefs \in RootPortalRefTables(Len(rootPortals))
  /\ loadCalls = <<>>
  /\ unloadCalls = <<>>
  /\ geometryDisposeCalls = 0
  /\ group = BareObject
  /\ status = "idle"
  /\ held = FALSE
  /\ disposals = 0
  /\ lastCall = Call("none", Vec(0, 0, 0), Undefined, FALSE, Undefined)

\* group = new WMOGroup(root, def); when the constructor raises the caller
\* receives no object.
Construct(def) ==
  /\ status = "idle"
  /\ LET r == constructor(rootPortals, rootPortalRefs, loadCalls, def)
     IN  /\ group' = r.this
         /\ loadCalls' = r.loadCalls
         /\ status' = IF r.threw THEN "failed" ELSE "ready"
         /\ held' = ~r.threw
         /\ lastCall' = Call("new", Vec(0, 0, 0), Undefined, r.threw,
                             Undefined)
  /\ UNCHANGED <<rootPortals, rootPortalRefs, unloadCalls,
                 geometryDisposeCalls, disposals>>

\* An instance on which createGeometry and createMaterial never ran
\* (Object.create(WMOGroup.prototype)).
Allocate ==
  /\ status = "idle"
  /\ group' = BareObject
  /\ status' = "bare"
  /\ held' = TRUE
  /\ lastCall' = Call("create", Vec(0, 0, 0), Undefined, FALSE, Undefined)
  /\ UNCHANGED <<rootPortals, rootPortalRefs, loadCalls, unloadCalls,
                 geometryDisposeCalls, disposals>>

\* group.dispose()
Dispose ==
  /\ held
  /\ disposals < MaxDisposals
  /\ LET r == dispose(group, unloadCalls, geometryDisposeCalls)
     IN  /\ unloadCalls' = r.unloadCalls
         /\ geometryDisposeCalls' = r.geometryDisposeCalls
         /\ lastCall' = Call("dispose", Vec(0, 0, 0), Undefined, r.threw,
                             Undefined)
  /\ disposals' = disposals + 1
  /\ UNCHANGED <<rootPortals, rootPortalRefs, loadCalls, group, status, held>>

\* group.closestPortal(point, max)
ClosestPortal(point, max) ==
  /\ status = "ready"
  /\ LET r == closestPortal(group, point, max)
     IN  lastCall' = Call("closestPortal", point, max, r.threw, r.value)
  /\ UNCHANGED <<rootPortals, rootPortalRefs, loadCalls, unloadCalls,
                 geometryDisposeCalls, group, status, held, disposals>>

Next ==
  \/ \E def \in Defs : Construct(def)
  \/ Allocate
  \/ Dispose
  \/ \E point \in Points, max \in Maxes : ClosestPortal(point, max)

Spec == Init /\ [][Next]_vars

(* ----------------------------- properties ----------------------------- *)

IsQuery == lastCall.op = "closestPortal"

\* The last call was a closestPortal that returned a result record.
Returned == IsQuery /\ ~lastCall.threw /\ IsDefined(lastCall.value)

\* The last call was a closestPortal that returned null.
ReturnedNull == IsQuery /\ ~lastCall.threw /\ ~IsDefined(lastCall.value)

GroupPortals == Get(group.portals)

GroupPortalRefs == Get(group.portalRefs)

Positions == 1..Len(GroupPortals)

AllDefined == \A i \in Positions : IsDefined(GroupPortals[i])

\* The clamped-projected distance of the portal at position i to the point
\* of the last call.
Dist(i) == PortalDistance(Get(GroupPortals[i]), lastCall.point)

\* Distance i is at most the max of the last call.
WithinMax(i) == ~RatLess(MaxDistance(Get(lastCall.max)), Dist(i))

\* C1: whenever closestPortal returns a result, the returned portal is at the
\* lowest position whose distance is the least of all portals of the group,
\* and the returned portalRef is the reference at that position.
C1_NearestFirstWins ==
  Returned =>
    \E i \in Positions :
      /\ \A j \in Positions : ~RatLess(Dist(j), Dist(i))
      /\ \A j \in 1..(i - 1) : RatLess(Dist(i), Dist(j))
      /\ Get(lastCall.value).portal = Get(GroupPortals[i])
      /\ Get(lastCall.value).portalRef = GroupPortalRefs[i]

\* A result was returned although a later position is at the same distance.
C1_Witness ==
  /\ Returned
  /\ \E i, j \in Positions :
       /\ i < j
       /\ RatEq(Dist(i), Dist(j))
       /\ \A k \in Positions : ~RatLess(Dist(k), Dist(i))
       /\ Get(lastCall.value).portalRef = GroupPortalRefs[i]
       /\ GroupPortalRefs[i] # GroupPortalRefs[j]

\* C2: closestPortal on a group without portals returns null, whatever the
\* point and max; on a group with portals all of whose distances exceed max
\* it returns null, although without max it returns a portal.  Neither raises.
C2_NoResultIsNull ==
  (status = "ready" /\ IsQuery) =>
    /\ Len(GroupPortals) = 0 => ReturnedNull
    /\ ( /\ Len(GroupPortals) > 0
         /\ IsDefined(lastCall.max)
         /\ AllDefined
         /\ \A i \in Positions : ~WithinMax(i) )
       => /\ ReturnedNull
          /\ LET free == closestPortal(group, lastCall.point, Undefined)
             IN  ~free.threw /\ IsDefined(free.value)

\* A query with max on a group with portals, all of them farther than max.
C2_Witness ==
  /\ status = "ready"
  /\ ReturnedNull
  /\ Len(GroupPortals) > 1
  /\ IsDefined(lastCall.max)
  /\ AllDefined
  /\ \A i \in Positions : ~WithinMax(i)

OnlyPortalA == GroupPortals = <<Some(PortalA)>>

NoMax == ~IsDefined(lastCall.max)

\* The signed distance x, carried as sgn(x) * x^2, is the integer n.
SignedIs(d, n) ==
  d.num = (IF n < 0 THEN -(n * n) ELSE n * n) * d.den

\* C3: the distance returned is signed: its magnitude is the distance from
\* the point to its projection on the portal plane clamped into the bounding
\* box; it is negative exactly when the plane's signed distance of the point
\* is < 0.  For the single portal z = 0 with box [(-1,-1,0), (1,1,0)] and no
\* max: (0,0,5) gives +5, (0,0,-3) gives -3, (5,5,2) gives +6.
C3_SignedDistance ==
  Returned =>
    LET res == Get(lastCall.value)
        d == PortalDistance(res.portal, lastCall.point)
        magnitude == IF res.distance.num < 0 THEN -res.distance.num
                                             ELSE res.distance.num
    IN  /\ magnitude * d.den = d.num * res.distance.den
        /\ res.distance.num < 0
             <=> PlaneDistanceScaled(res.portal.plane, lastCall.point) < 0
        /\ (OnlyPortalA /\ NoMax) =>
             /\ lastCall.point = Vec(0, 0, 5) => SignedIs(res.distance, 5)
             /\ lastCall.point = Vec(0, 0, -3) => SignedIs(res.distance, -3)
             /\ lastCall.point = Vec(5, 5, 2) => SignedIs(res.distance, 6)

\* The single portal z = 0 queried from (5,5,2) without max.
C3_Witness ==
  Returned /\ OnlyPortalA /\ NoMax /\ lastCall.point = Vec(5, 5, 2)

\* C4: closestPortal(point, max) returns a portal whenever some portal of the
\* group is at a distance <= max.
C4_WithinMaxReturns ==
  ( /\ status = "ready"
    /\ IsQuery
    /\ IsDefined(lastCall.max)
    /\ AllDefined
    /\ \E i \in Positions : WithinMax(i) )
  => Returned

RangePastEnd ==
  /\ IsDefined(group.header)
  /\ Get(group.header).portalCount > 0
  /\ Get(group.header).portalOffset + Get(group.header).portalCount
       > Len(rootPortalRefs)

\* C5: constructing a group whose portal range extends past the end of
\* root.portalRefs raises, hands no object to the caller, and raises before
\* root.loadMaterials has been called.
C5_RangePastEndFails ==
  RangePastEnd =>
    /\ status = "failed"
    /\ lastCall.op = "new"
    /\ lastCall.threw
    /\ ~held
    /\ loadCalls = <<>>

\* A construction whose range starts inside the table and ends past it.
C5_Witness ==
  /\ RangePastEnd
  /\ status = "failed"
  /\ Get(group.header).portalOffset < Len(rootPortalRefs)

\* C6: dispose() on an instance without geometry and material does not
\* raise, calls no geometry.dispose and no root.unloadMaterial.
C6_DisposeBare ==
  ( /\ lastCall.op = "dispose"
    /\ ~IsDefined(group.geometry)
    /\ ~IsDefined(group.material) )
  => /\ ~lastCall.threw
     /\ geometryDisposeCalls = 0
     /\ unloadCalls = <<>>

C6_Witness ==
  /\ status = "bare"
  /\ lastCall.op = "dispose"
  /\ ~IsDefined(group.geometry)
  /\ ~IsDefined(group.material)

RECURSIVE Repeat(_, _)
Repeat(s, n) == IF n = 0 THEN <<>> ELSE s \o Repeat(s, n - 1)

\* C7: each dispose() of a constructed group disposes the geometry and calls
\* root.unloadMaterial once per handle held, in the order held; the handles
\* held are those root.loadMaterials returned to the constructor.
C7_DisposeUnloadsEach ==
  status = "ready" =>
    /\ Len(loadCalls) = 1
    /\ Get(group.material).materials = loadMaterials(loadCalls[1])
    /\ geometryDisposeCalls = disposals
    /\ unloadCalls = Repeat(Get(group.material).materials, disposals)
    /\ lastCall.op = "dispose" => ~lastCall.threw

\* One dispose() of a group holding three handles.
C7_Witness ==
  /\ status = "ready"
  /\ lastCall.op = "dispose"
  /\ disposals = 1
  /\ Len(Get(group.material).materials) = 3
  /\ unloadCalls = Get(group.material).materials

SliceCount ==
  IF Get(group.header).portalCount > 0 THEN Get(group.header).portalCount
                                       ELSE 0

PortalsAreSlice ==
  /\ Len(GroupPortals) = SliceCount
  /\ Len(GroupPortalRefs) = SliceCount
  /\ \A i \in 0..(SliceCount - 1) :
       /\ Some(GroupPortalRefs[i + 1])
            = At(rootPortalRefs, Get(group.header).portalOffset + i)
       /\ GroupPortals[i + 1]
            = At(rootPortals, GroupPortalRefs[i + 1].portalIndex)

\* C8: after a successful construction the group's portalRefs are the slice
\* [portalOffset, portalOffset + portalCount) of root.portalRefs in order
\* (empty when portalCount <= 0) and portals[i] is
\* root.portals[portalRefs[i].portalIndex]; no step changes root.portals or
\* root.portalRefs.
C8_PortalSlice ==
  /\ [](status = "ready" => PortalsAreSlice)
  /\ [][rootPortals' = rootPortals /\ rootPortalRefs' = rootPortalRefs]_vars

\* A slice that starts after the first reference of the table.
C8_Witness ==
  /\ status = "ready"
  /\ Get(group.header).portalOffset = 1
  /\ Len(GroupPortals) >= 1

\* C9: every entry of a constructed group's portals is a portal of
\* root.portals, and closestPortal on a constructed group never raises.
C9_PortalsDefined ==
  status = "ready" => (AllDefined /\ (IsQuery => ~lastCall.threw))

RECURSIVE Flatten(_)
Flatten(ss) == IF ss = <<>> THEN <<>> ELSE Head(ss) \o Flatten(Tail(ss))

\* The handles root.loadMaterials has handed out, one entry per hand-out.
LoadedHandles ==
  Flatten([i \in 1..Len(loadCalls) |-> loadMaterials(loadCalls[i])])

Occurrences(s, x) == Cardinality({i \in 1..Len(s) : s[i] = x})

\* C10: over any sequence of dispose() calls root.unloadMaterial is called
\* for a handle at most as often as root.loadMaterials handed it to the group.
C10_NoOverRelease ==
  \A i \in 1..Len(unloadCalls) :
    Occurrences(unloadCalls, unloadCalls[i])
      <= Occurrences(LoadedHandles, unloadCalls[i])

====
